---- MODULE Spec2Model ----
(***************************************************************************)
(* Model of src/keep/streamlit-keep.py: StreamlitAppWaker and main().      *)
(*                                                                         *)
(* The program is sequential.  Every call into the browser (Selenium) is   *)
(* one step; what the call returns or raises is decided by the page the    *)
(* browser shows at that moment and, for every call that talks to the      *)
(* page, by the possibility of an unexpected WebDriverException.  The      *)
(* page belongs to the remote application and may change between any two   *)
(* calls, so every call draws what it sees (saw) afresh and records it in  *)
(* the log.  switch_to.default_content() and quit() are taken to succeed:  *)
(* they are the release primitives of the session.                         *)
(***************************************************************************)
EXTENDS Naturals, Sequences, FiniteSets

VARIABLES
    url,            \* StreamlitAppWaker.APP_URL (line 21): "" or a non-empty URL
    pc,             \* position of the program
    driver,         \* self.driver: "None" or "Chrome"
    session,        \* the browser session: "none", "open", "closed"
    ctx,            \* frame context of the session (driver.switch_to)
    click_success,  \* local of wakeup_app (line 141)
    desc,           \* context_description of the running find_and_click_button
    caller,         \* call site of the running is_app_woken_up
    exc,            \* the exception being propagated, "none" when there is none
    result,         \* what run() returned: <<>> or <<[success, msg]>>
    exitCode,       \* exit code of the process: <<>> while running, then <<code>>
    log             \* history: every browser call and sleep, in order

vars == <<url, pc, driver, session, ctx, click_success, desc, caller,
          exc, result, exitCode, log>>

\* ------------------------------------------------------------------ constants

INITIAL_WAIT_TIME == 10
POST_CLICK_WAIT_TIME == 20
SEARCH_TIMEOUT == 5

Urls == {"", "https://app.example"}

\* state of the wake button in one document
BtnStates == {"absent", "hidden", "clickable"}
\* whether the page has an iframe element
FrameStates == {"none", "iframe"}

\* messages (the Chinese texts of the source, by meaning)
MsgAlreadyAwake == "already awake, no action needed"           \* line 169
MsgWakeSucceeded == "wake succeeded"                           \* line 179
MsgRunFailed == "script failed: "                              \* line 193

\* exceptions; the first three are Selenium's, the others are the messages
\* of the Exception objects the program raises itself
ExcConfig == "STREAMLIT_APP_URL not configured"                \* line 133
ExcNotFound == "wake button not found or not clickable"        \* line 171
ExcStillPresent == "wake button still present after the wait"  \* line 181

\* ------------------------------------------------------------------ helpers

\* seconds a call spends waiting: a bounded wait that times out uses up its
\* timeout (lines 69, 98, 112)
Waited(op, out) ==
    IF op = "sleep_initial" THEN INITIAL_WAIT_TIME
    ELSE IF op = "sleep_post_click" THEN POST_CLICK_WAIT_TIME
    ELSE IF out = "TimeoutException" THEN SEARCH_TIMEOUT
    ELSE 0

Event(line, op, saw, out) ==
    [line |-> line, op |-> op, ctx |-> ctx, saw |-> saw, out |-> out,
     secs |-> Waited(op, out)]

Logged(line, op, saw, out) == log' = Append(log, Event(line, op, saw, out))

\* run() returns (False, error_msg) from its except block
Failure(e) == [success |-> FALSE, msg |-> <<MsgRunFailed, e>>]
Success(m) == [success |-> TRUE, msg |-> <<m>>]

Init ==
    /\ url \in Urls
    /\ pc = "main"
    /\ driver = "None"
    /\ session = "none"
    /\ ctx = "MainDocument"
    /\ click_success = FALSE
    /\ desc = "none"
    /\ caller = "none"
    /\ exc = "none"
    /\ result = <<>>
    /\ exitCode = <<>>
    /\ log = <<>>

\* ------------------------------------------------------------------ main, __init__, setup_driver

\* lines 207-209, 27-29, 49-50: main() constructs the waker; __init__ calls
\* setup_driver, which starts Chrome.  A failure is logged and re-raised
\* (lines 53-55) and reaches main's except block.
SetupDriver_Chrome ==
    /\ pc = "main"
    /\ \/ /\ driver' = "Chrome"
          /\ session' = "open"
          /\ pc' = "setup_script"
          /\ exc' = exc
          /\ Logged(50, "Chrome", "-", "ok")
       \/ /\ UNCHANGED <<driver, session>>
          /\ pc' = "main_except"
          /\ exc' = "WebDriverException"
          /\ Logged(50, "Chrome", "-", "WebDriverException")
    /\ UNCHANGED <<url, ctx, click_success, desc, caller, result, exitCode>>

\* line 51 (and 53-55 when it raises)
SetupDriver_ExecuteScript ==
    /\ pc = "setup_script"
    /\ \/ /\ pc' = "run"
          /\ exc' = exc
          /\ Logged(51, "execute_script", "-", "ok")
       \/ /\ pc' = "main_except"
          /\ exc' = "WebDriverException"
          /\ Logged(51, "execute_script", "-", "WebDriverException")
    /\ UNCHANGED <<url, driver, session, ctx, click_success, desc, caller,
                   result, exitCode>>

\* lines 220-222: main's except block
Main_Except ==
    /\ pc = "main_except"
    /\ exitCode' = <<1>>
    /\ pc' = "exited"
    /\ UNCHANGED <<url, driver, session, ctx, click_success, desc, caller,
                   exc, result, log>>

\* faulty variant: a failed wake exits with code 1
ExitCodeAfterRun_FailureIsOne(success) == IF success THEN 0 ELSE 1

\* lines 213-218: exit(0) in both branches of "if success"
ExitCodeAfterRun(success) == IF success THEN 0 ELSE 0

\* lines 210-218: after run() returned, exit(0) whether it succeeded or not
Main_Exit ==
    /\ pc = "main_after_run"
    /\ exitCode' = <<ExitCodeAfterRun(result[1].success)>>
    /\ pc' = "exited"
    /\ UNCHANGED <<url, driver, session, ctx, click_success, desc, caller,
                   exc, result, log>>

\* ------------------------------------------------------------------ run

\* lines 185-189: run() enters its try block and calls wakeup_app
Run_Enter ==
    /\ pc = "run"
    /\ pc' = "check_url"
    /\ UNCHANGED <<url, driver, session, ctx, click_success, desc, caller,
                   exc, result, exitCode, log>>

\* line 192: "except Exception" catches every exception the program and
\* Selenium raise
Exceptions ==
    {"TimeoutException", "NoSuchElementException", "WebDriverException",
     ExcConfig, ExcNotFound, ExcStillPresent}

\* faulty variant: run catches only Selenium's exceptions
RunCatches_SeleniumOnly(e) ==
    e \in {"TimeoutException", "NoSuchElementException", "WebDriverException"}

RunCatches(e) == e \in Exceptions

\* lines 192-195: except Exception: return False, error_msg; an exception
\* that is not caught stays pending while the finally block runs
Run_Except ==
    /\ pc = "run_except"
    /\ IF RunCatches(exc)
         THEN /\ result' = <<Failure(exc)>>
              /\ exc' = "none"
         ELSE UNCHANGED <<result, exc>>
    /\ pc' = "run_finally"
    /\ UNCHANGED <<url, driver, session, ctx, click_success, desc, caller,
                   exitCode, log>>

\* faulty variant: run does not quit the driver
FinallySession_NoQuit == session

\* the session after the finally block of run (lines 197-200)
FinallySession == IF driver # "None" THEN "closed" ELSE session

Run_Finally ==
    /\ pc = "run_finally"
    /\ session' = FinallySession
    /\ log' = IF driver # "None"
                THEN Append(log, Event(200, "quit", "-", "ok"))
                ELSE log
    /\ pc' = IF exc = "none" THEN "main_after_run" ELSE "main_except"
    /\ UNCHANGED <<url, driver, ctx, click_success, desc, caller, exc,
                   result, exitCode>>

\* ------------------------------------------------------------------ find_and_click_button

\* faulty variant: the iframe is looked up whether or not the click in the main
\* page succeeded (the guard of line 147 is missing)
FCB_Return_NoGuard(r) ==
    /\ click_success' = r
    /\ desc' = "none"
    /\ pc' = IF desc = "main_page" THEN "find_iframe" ELSE "restore"

\* faulty variant: the answer of the search inside the iframe is not assigned to
\* click_success (line 155)
FCB_Return_FrameResultDropped(r) ==
    /\ click_success' = IF desc = "main_page" THEN r ELSE click_success
    /\ desc' = "none"
    /\ pc' = IF desc = "main_page"
               THEN (IF r THEN "post_wait" ELSE "find_iframe")
               ELSE "restore"

\* find_and_click_button returns r to its call site in wakeup_app.
\* Line 144 (main page): click_success = r; when r is false the iframe is
\* looked up (line 147), otherwise lines 147 and 166 are skipped and the
\* post-click wait follows.  Line 155 (inside the iframe): click_success = r
\* and the finally block (line 159) runs.
FCB_Return(r) ==
    /\ click_success' = r
    /\ desc' = "none"
    /\ pc' = IF desc = "main_page"
               THEN (IF r THEN "post_wait" ELSE "find_iframe")
               ELSE "restore"

\* line 69: WebDriverWait(5).until(element_to_be_clickable); TimeoutException
\* (lines 80-82) and any other exception (lines 86-88) return False
FCB_Wait ==
    /\ pc = "fcb_wait"
    /\ \E saw \in BtnStates :
         \/ /\ saw = "clickable"
            /\ pc' = "fcb_check"
            /\ UNCHANGED <<click_success, desc>>
            /\ Logged(69, "wait_clickable", saw, "ok")
         \/ /\ saw # "clickable"
            /\ FCB_Return(FALSE)
            /\ Logged(69, "wait_clickable", saw, "TimeoutException")
         \/ /\ FCB_Return(FALSE)
            /\ Logged(69, "wait_clickable", saw, "WebDriverException")
    /\ UNCHANGED <<url, driver, session, ctx, caller, exc, result, exitCode>>

\* faulty variant: a button that is not visible and enabled is clicked all
\* the same (the test of line 72 is missing)
FCB_Check_ClicksHidden ==
    /\ pc = "fcb_check"
    /\ \E saw \in BtnStates :
         \/ /\ saw \in {"clickable", "hidden"}
            /\ pc' = "fcb_click"
            /\ UNCHANGED <<click_success, desc>>
            /\ Logged(72, "is_displayed_enabled", saw, "true")
         \/ /\ FCB_Return(FALSE)
            /\ Logged(72, "is_displayed_enabled", saw, "WebDriverException")
    /\ UNCHANGED <<url, driver, session, ctx, caller, exc, result, exitCode>>

\* line 72: button.is_displayed() and button.is_enabled(); false returns
\* False (lines 76-78); an exception (an element that left the page is one
\* cause) returns False (lines 86-88)
FCB_Check ==
    /\ pc = "fcb_check"
    /\ \E saw \in BtnStates :
         \/ /\ saw = "clickable"
            /\ pc' = "fcb_click"
            /\ UNCHANGED <<click_success, desc>>
            /\ Logged(72, "is_displayed_enabled", saw, "true")
         \/ /\ saw = "hidden"
            /\ FCB_Return(FALSE)
            /\ Logged(72, "is_displayed_enabled", saw, "false")
         \/ /\ FCB_Return(FALSE)
            /\ Logged(72, "is_displayed_enabled", saw, "WebDriverException")
    /\ UNCHANGED <<url, driver, session, ctx, caller, exc, result, exitCode>>

\* line 73: button.click(), then return True (line 75); a click that raises
\* returns False (lines 86-88)
FCB_Click ==
    /\ pc = "fcb_click"
    /\ \E saw \in BtnStates :
         \/ /\ saw = "clickable"
            /\ FCB_Return(TRUE)
            /\ Logged(73, "click", saw, "ok")
         \/ /\ FCB_Return(FALSE)
            /\ Logged(73, "click", saw, "WebDriverException")
    /\ UNCHANGED <<url, driver, session, ctx, caller, exc, result, exitCode>>

\* ------------------------------------------------------------------ wakeup_app, lines 130-164

\* faulty variant: the URL check is missing
UrlMissing_Unchecked == FALSE

\* line 132: not self.APP_URL
UrlMissing == url = ""

\* lines 132-133
WakeupApp_CheckUrl ==
    /\ pc = "check_url"
    /\ \/ /\ UrlMissing
          /\ exc' = ExcConfig
          /\ pc' = "run_except"
       \/ /\ ~UrlMissing
          /\ exc' = exc
          /\ pc' = "get"
    /\ UNCHANGED <<url, driver, session, ctx, click_success, desc, caller,
                   result, exitCode, log>>

\* line 136: driver.get(APP_URL); an exception leaves wakeup_app
WakeupApp_Get ==
    /\ pc = "get"
    /\ \/ /\ pc' = "initial_wait"
          /\ exc' = exc
          /\ Logged(136, "get", "-", "ok")
       \/ /\ pc' = "run_except"
          /\ exc' = "WebDriverException"
          /\ Logged(136, "get", "-", "WebDriverException")
    /\ UNCHANGED <<url, driver, session, ctx, click_success, desc, caller,
                   result, exitCode>>

\* faulty variant: after the initial wait the iframe is looked up first, the
\* main page is not searched
WakeupApp_InitialWait_FrameFirst ==
    /\ pc = "initial_wait"
    /\ Logged(139, "sleep_initial", "-", "ok")
    /\ click_success' = FALSE
    /\ desc' = desc
    /\ pc' = "find_iframe"
    /\ UNCHANGED <<url, driver, session, ctx, caller, exc, result, exitCode>>

\* lines 139-144: time.sleep(INITIAL_WAIT_TIME); click_success = False; call
\* find_and_click_button("main page")
WakeupApp_InitialWait ==
    /\ pc = "initial_wait"
    /\ Logged(139, "sleep_initial", "-", "ok")
    /\ click_success' = FALSE
    /\ desc' = "main_page"
    /\ pc' = "fcb_wait"
    /\ UNCHANGED <<url, driver, session, ctx, caller, exc, result, exitCode>>

\* line 151: find_element(By.TAG_NAME, "iframe"); NoSuchElementException
\* (lines 161-162) and any other exception (lines 163-164) go on to line 166
\* with click_success false, where is_app_woken_up is called (line 168)
\* faulty variant: only the missing iframe is handled (the handler of lines
\* 163-164 is missing), any other exception leaves wakeup_app
AfterLookupError_OnlyMissing(e) ==
    IF e = "NoSuchElementException" THEN "iaw_default" ELSE "run_except"

\* lines 161-166: where the program goes on after find_element raised e:
\* both handlers fall through to line 166, and with click_success false
\* is_app_woken_up is called (line 168)
AfterLookupError(e) == "iaw_default"

WakeupApp_FindIframe ==
    /\ pc = "find_iframe"
    /\ \E saw \in FrameStates :
         \/ /\ saw # "none"
            /\ pc' = "switch_frame"
            /\ UNCHANGED <<caller, exc>>
            /\ Logged(151, "find_iframe", saw, "ok")
         \/ /\ saw = "none"
            /\ pc' = AfterLookupError("NoSuchElementException")
            /\ caller' = IF pc' = "iaw_default" THEN "L168" ELSE caller
            /\ exc' = IF pc' = "iaw_default" THEN exc ELSE "NoSuchElementException"
            /\ Logged(151, "find_iframe", saw, "NoSuchElementException")
         \/ /\ pc' = AfterLookupError("WebDriverException")
            /\ caller' = IF pc' = "iaw_default" THEN "L168" ELSE caller
            /\ exc' = IF pc' = "iaw_default" THEN exc ELSE "WebDriverException"
            /\ Logged(151, "find_iframe", saw, "WebDriverException")
    /\ UNCHANGED <<url, driver, session, ctx, click_success, desc,
                   result, exitCode>>

\* line 153: the context after switch_to.frame(iframe)
FrameContext == "EmbeddedFrame"

\* line 153: switch_to.frame(iframe), then find_and_click_button("iframe")
\* (line 155); when the switch raises, the finally block runs with the
\* exception pending
WakeupApp_SwitchFrame ==
    /\ pc = "switch_frame"
    /\ \E saw \in FrameStates :
         \/ /\ saw # "none"
            /\ ctx' = FrameContext
            /\ desc' = "iframe"
            /\ exc' = exc
            /\ pc' = "fcb_wait"
            /\ Logged(153, "switch_frame", saw, "ok")
         \/ /\ UNCHANGED <<ctx, desc>>
            /\ exc' = "WebDriverException"
            /\ pc' = "restore"
            /\ Logged(153, "switch_frame", saw, "WebDriverException")
    /\ UNCHANGED <<url, driver, session, click_success, caller, result,
                   exitCode>>

\* faulty variant: the switch back sits at the end of the try block, so it is
\* skipped when the click in the frame did not return normally or succeed
FinallyContext_NoRestore(e) == ctx

\* the context after the finally block of lines 157-159, e the pending exception
FinallyContext(e) == "MainDocument"

\* faulty variant: the post-click wait follows the frame search whether or
\* not the click succeeded (the test of line 166 is missing)
WakeupApp_Restore_AlwaysWaits ==
    /\ pc = "restore"
    /\ ctx' = FinallyContext(exc)
    /\ exc' = "none"
    /\ Logged(159, "default_content", "-", "ok")
    /\ pc' = "post_wait"
    /\ caller' = caller
    /\ UNCHANGED <<url, driver, session, click_success, desc, result,
                   exitCode>>

\* lines 157-166: finally: switch_to.default_content(); a pending exception
\* is caught at lines 163-164; then line 166 decides between the absence
\* check (line 168) and the post-click wait (line 175)
WakeupApp_Restore ==
    /\ pc = "restore"
    /\ ctx' = FinallyContext(exc)
    /\ exc' = "none"
    /\ Logged(159, "default_content", "-", "ok")
    /\ \/ /\ click_success
          /\ pc' = "post_wait"
          /\ caller' = caller
       \/ /\ ~click_success
          /\ pc' = "iaw_default"
          /\ caller' = "L168"
    /\ UNCHANGED <<url, driver, session, click_success, desc, result,
                   exitCode>>

\* lines 174-178: time.sleep(POST_CLICK_WAIT_TIME), then is_app_woken_up()
WakeupApp_PostWait ==
    /\ pc = "post_wait"
    /\ Logged(175, "sleep_post_click", "-", "ok")
    /\ caller' = "L178"
    /\ pc' = "iaw_default"
    /\ UNCHANGED <<url, driver, session, ctx, click_success, desc, exc,
                   result, exitCode>>

\* ------------------------------------------------------------------ is_app_woken_up, lines 90-127

\* is_app_woken_up returns r to its call site in wakeup_app.  Line 168 (no
\* click succeeded): true returns the "already awake" pair (line 169), false
\* raises (line 171).  Line 178 (after the post-click wait): true returns the
\* "wake succeeded" pair (line 179), false raises (line 181).  A returned
\* pair is what run returns (lines 189-190); an exception goes to run's
\* except block.
\* faulty variant: both call sites answer with the message of line 169
SuccessMessage_Same(c) == MsgAlreadyAwake

\* faulty variant: the messages of lines 169 and 179 are exchanged
SuccessMessage_Swapped(c) ==
    IF c = "L168" THEN MsgWakeSucceeded ELSE MsgAlreadyAwake

\* lines 169 and 179: the message of the pair wakeup_app returns
SuccessMessage(c) == IF c = "L168" THEN MsgAlreadyAwake ELSE MsgWakeSucceeded

IAW_Return(r) ==
    /\ caller' = "none"
    /\ IF r
         THEN /\ result' = <<Success(SuccessMessage(caller))>>
              /\ exc' = exc
              /\ pc' = "run_finally"
         ELSE /\ result' = result
              /\ exc' = IF caller = "L168" THEN ExcNotFound ELSE ExcStillPresent
              /\ pc' = "run_except"

\* line 95: switch_to.default_content()
IAW_Default ==
    /\ pc = "iaw_default"
    /\ ctx' = "MainDocument"
    /\ pc' = "iaw_main_wait"
    /\ Logged(95, "default_content", "-", "ok")
    /\ UNCHANGED <<url, driver, session, click_success, desc, caller, exc,
                   result, exitCode>>

\* lines 96-104: WebDriverWait(5).until(presence_of_element_located); found
\* returns False (line 102), TimeoutException goes on to the iframe; any
\* other exception is not caught here and leaves is_app_woken_up and
\* wakeup_app
IAW_MainWait ==
    /\ pc = "iaw_main_wait"
    /\ \E saw \in BtnStates :
         \/ /\ saw # "absent"
            /\ IAW_Return(FALSE)
            /\ Logged(98, "wait_presence", saw, "ok")
         \/ /\ saw = "absent"
            /\ pc' = "iaw_find_iframe"
            /\ UNCHANGED <<caller, exc, result>>
            /\ Logged(98, "wait_presence", saw, "TimeoutException")
         \/ /\ pc' = "run_except"
            /\ exc' = "WebDriverException"
            /\ caller' = "none"
            /\ result' = result
            /\ Logged(98, "wait_presence", saw, "WebDriverException")
    /\ UNCHANGED <<url, driver, session, ctx, click_success, desc, exitCode>>

\* line 108: find_element(By.TAG_NAME, "iframe"); NoSuchElementException
\* goes to line 120, any other exception to line 125
IAW_FindIframe ==
    /\ pc = "iaw_find_iframe"
    /\ \E saw \in FrameStates :
         \/ /\ saw # "none"
            /\ pc' = "iaw_switch"
            /\ Logged(108, "find_iframe", saw, "ok")
         \/ /\ saw = "none"
            /\ pc' = "iaw_gone"
            /\ Logged(108, "find_iframe", saw, "NoSuchElementException")
         \/ /\ pc' = "iaw_error"
            /\ Logged(108, "find_iframe", saw, "WebDriverException")
    /\ UNCHANGED <<url, driver, session, ctx, click_success, desc, caller,
                   exc, result, exitCode>>

\* line 109: switch_to.frame(iframe); an exception goes to line 125
IAW_SwitchFrame ==
    /\ pc = "iaw_switch"
    /\ \E saw \in FrameStates :
         \/ /\ saw # "none"
            /\ ctx' = "EmbeddedFrame"
            /\ pc' = "iaw_frame_wait"
            /\ Logged(109, "switch_frame", saw, "ok")
         \/ /\ ctx' = ctx
            /\ pc' = "iaw_error"
            /\ Logged(109, "switch_frame", saw, "WebDriverException")
    /\ UNCHANGED <<url, driver, session, click_success, desc, caller, exc,
                   result, exitCode>>

\* lines 112-114: the presence wait inside the iframe; found goes to line
\* 116, TimeoutException to line 120, any other exception to line 125
IAW_FrameWait ==
    /\ pc = "iaw_frame_wait"
    /\ \E saw \in BtnStates :
         \/ /\ saw \in {"hidden", "clickable"}
            /\ pc' = "iaw_found"
            /\ Logged(112, "wait_presence", saw, "ok")
         \/ /\ saw = "absent"
            /\ pc' = "iaw_gone"
            /\ Logged(112, "wait_presence", saw, "TimeoutException")
         \/ /\ pc' = "iaw_error"
            /\ Logged(112, "wait_presence", saw, "WebDriverException")
    /\ UNCHANGED <<url, driver, session, ctx, click_success, desc, caller,
                   exc, result, exitCode>>

\* faulty variant: the generic handler forgets to switch back
ErrorContext_NotRestored == ctx

\* the context each of the three exits of the iframe part leaves
FoundContext == "MainDocument"          \* line 116
GoneContext == "MainDocument"           \* line 120
ErrorContext == "MainDocument"          \* line 125

\* lines 116-118: switch back, return False
IAW_Found ==
    /\ pc = "iaw_found"
    /\ ctx' = FoundContext
    /\ Logged(116, "default_content", "-", "ok")
    /\ IAW_Return(FALSE)
    /\ UNCHANGED <<url, driver, session, click_success, desc, exitCode>>

\* faulty variant: a button that is gone from the frame is reported as not woken
GoneAnswer_False == FALSE

\* line 122: return True
GoneAnswer == TRUE

\* lines 119-122: except (NoSuchElementException, TimeoutException): switch
\* back, return True
IAW_Gone ==
    /\ pc = "iaw_gone"
    /\ ctx' = GoneContext
    /\ Logged(120, "default_content", "-", "ok")
    /\ IAW_Return(GoneAnswer)
    /\ UNCHANGED <<url, driver, session, click_success, desc, exitCode>>

\* faulty variant: an unexpected error in the frame part of the check is
\* reported as woken
ErrorAnswer_True == TRUE

\* line 127: return False
ErrorAnswer == FALSE

\* lines 123-127: except Exception: switch back, return False
IAW_Error ==
    /\ pc = "iaw_error"
    /\ ctx' = ErrorContext
    /\ Logged(125, "default_content", "-", "ok")
    /\ IAW_Return(ErrorAnswer)
    /\ UNCHANGED <<url, driver, session, click_success, desc, exitCode>>

\* ------------------------------------------------------------------ specification

Next ==
    \/ SetupDriver_Chrome
    \/ SetupDriver_ExecuteScript
    \/ Main_Except
    \/ Main_Exit
    \/ Run_Enter
    \/ Run_Except
    \/ Run_Finally
    \/ FCB_Wait
    \/ FCB_Check
    \/ FCB_Click
    \/ WakeupApp_CheckUrl
    \/ WakeupApp_Get
    \/ WakeupApp_InitialWait
    \/ WakeupApp_FindIframe
    \/ WakeupApp_SwitchFrame
    \/ WakeupApp_Restore
    \/ WakeupApp_PostWait
    \/ IAW_Default
    \/ IAW_MainWait
    \/ IAW_FindIframe
    \/ IAW_SwitchFrame
    \/ IAW_FrameWait
    \/ IAW_Found
    \/ IAW_Gone
    \/ IAW_Error

Spec == Init /\ [][Next]_vars

TypeOK ==
    /\ url \in Urls
    /\ driver \in {"None", "Chrome"}
    /\ session \in {"none", "open", "closed"}
    /\ ctx \in {"MainDocument", "EmbeddedFrame"}
    /\ click_success \in BOOLEAN
    /\ Len(result) <= 1
    /\ exitCode \in {<<>>, <<0>>, <<1>>}

\* ------------------------------------------------------------------ history

Indexes == DOMAIN log

\* some call at source line l ended with outcome o
Has(l, o) == \E i \in Indexes : log[i].line = l /\ log[i].out = o

\* some call at source line l was made
Called(l) == \E i \in Indexes : log[i].line = l

LastLine == IF log = <<>> THEN 0 ELSE log[Len(log)].line

\* ------------------------------------------------------------------ claims

\* C1: when the click search of wakeup_app goes into the iframe, the frame
\* context is the main document again when the next phase (the absence check
\* of line 168 or the post-click wait of line 175) begins, whether the click
\* in the frame succeeded, failed, or the switch or the search raised.
C1_ContextRestoredAfterClickSearch ==
    pc \in {"iaw_default", "post_wait"} => ctx = "MainDocument"

\* C1 witness: the frame was entered, the click in it succeeded, and the
\* post-click wait is about to start
C1_Witness ==
    /\ pc = "post_wait"
    /\ Has(153, "ok")
    /\ \E i \in Indexes : /\ log[i].line = 73
                          /\ log[i].ctx = "EmbeddedFrame"
                          /\ log[i].out = "ok"
    /\ ctx = "MainDocument"

\* C2: every exit of is_app_woken_up (returning true, returning false, or
\* letting an exception through) leaves the context at the main document,
\* and it stays there for the rest of the run.
C2_ContextMainAfterAbsenceCheck ==
    (pc \in {"run_except", "run_finally", "main_after_run", "main_except", "exited"}
       /\ Called(95))
    => ctx = "MainDocument"

\* C2 witness: the absence check entered the frame, the presence wait inside
\* it raised an unexpected error, and the check has returned
C2_Witness ==
    /\ pc = "run_except"
    /\ Has(109, "ok")
    /\ Has(112, "WebDriverException")
    /\ LastLine = 125
    /\ ctx = "MainDocument"

\* C3: whenever a browser session was started, it has been closed
\* (driver.quit) when the process exits.
C3_SessionClosedAtExit ==
    pc = "exited" => session # "open"

\* C4 as stated: with an empty URL no browser session is ever started and no
\* script is ever executed in it.
C4_NoSessionWithEmptyUrl ==
    url = "" => /\ session = "none"
                /\ ~Called(51)

\* C4 as amended: with an empty URL the configuration error is raised before
\* any page is opened or searched; the only browser calls of the run are the
\* start of Chrome and the set-up script of the constructor (lines 50, 51)
\* and the quit of run's finally block (line 200), and run returns the
\* configuration error as its failure.
C4_NoPageActionWithEmptyUrl ==
    url = "" =>
        /\ \A i \in Indexes : log[i].line \in {50, 51, 200}
        /\ pc = "main_after_run" =>
               result = <<[success |-> FALSE, msg |-> <<MsgRunFailed, ExcConfig>>]>>

\* C4 witness: the URL is empty, the session is open, and the configuration
\* error has just been raised
C4_Witness ==
    /\ url = ""
    /\ pc = "run_except"
    /\ exc = ExcConfig
    /\ session = "open"
    /\ Has(51, "ok")

\* C5 as stated: run fails by returning a pair when the URL is not empty, and
\* by raising (returning no pair) when the URL is empty.
C5_EmptyUrlRaises ==
    pc \in {"main_after_run", "main_except"} /\ Has(51, "ok") =>
        IF url = "" THEN result = <<>> /\ pc = "main_except"
                    ELSE Len(result) = 1 /\ pc = "main_after_run"

\* C5 as amended: run fails only by returning (False, message): for every
\* URL, the empty one included, no exception leaves run; the message of a
\* failure is the text of the exception that was raised, and for an empty
\* URL it is the configuration error.
C5_RunAlwaysReturnsPair ==
    /\ pc = "main_after_run" =>
          /\ Len(result) = 1
          /\ exc = "none"
          /\ ~result[1].success =>
                 /\ Len(result[1].msg) = 2
                 /\ result[1].msg[1] = MsgRunFailed
                 /\ result[1].msg[2] \in
                        {ExcConfig, ExcNotFound, ExcStillPresent, "WebDriverException"}
          /\ url = "" =>
                 result = <<[success |-> FALSE, msg |-> <<MsgRunFailed, ExcConfig>>]>>
    /\ pc = "main_except" => LastLine \in {50, 51} /\ result = <<>>

\* C5 witness: run has returned the failure pair of an empty URL
C5_Witness ==
    /\ pc = "main_after_run"
    /\ url = ""
    /\ result = <<[success |-> FALSE, msg |-> <<MsgRunFailed, ExcConfig>>]>>
    /\ session = "closed"

\* ------------------------------------------------------------------ history of the page

SearchLines == {69, 72, 73}     \* the calls of find_and_click_button
ClickSearchLines == SearchLines \cup {151, 153}
ButtonOps == {"wait_clickable", "is_displayed_enabled", "click", "wait_presence"}

\* no call made so far raised an unexpected exception
NoUnexpected == \A i \in Indexes : log[i].out # "WebDriverException"

NoUnexpectedAt(lines) ==
    \A i \in Indexes : log[i].line \in lines => log[i].out # "WebDriverException"

\* a click succeeded in context c
ClickedIn(c) ==
    \E i \in Indexes : log[i].op = "click" /\ log[i].out = "ok" /\ log[i].ctx = c

Clicked == ClickedIn("MainDocument") \/ ClickedIn("EmbeddedFrame")

\* every call of the click search made in context c saw the button in state b
SearchSaw(c, b) ==
    \A i \in Indexes :
        log[i].line \in SearchLines /\ log[i].ctx = c => log[i].saw = b

\* run has returned its pair
RunReturned == pc \in {"main_after_run", "exited"} /\ result # <<>>

\* the click search in the main page has been made and is over
MainSearchDone ==
    /\ \E i \in Indexes : log[i].line = 69 /\ log[i].ctx = "MainDocument"
    /\ desc # "main_page"

\* the whole click search (lines 141-164) has been made and is over
ClickSearchDone ==
    /\ MainSearchDone
    /\ pc \notin {"fcb_wait", "fcb_check", "fcb_click", "find_iframe",
                  "switch_frame", "restore"}

FrameButtonPage ==
    /\ SearchSaw("MainDocument", "absent")
    /\ SearchSaw("EmbeddedFrame", "clickable")
    /\ \A i \in Indexes : log[i].line \in {151, 153} => log[i].saw = "iframe"

\* what C8 promises once the click search is over
FrameClickDone ==
    /\ Has(153, "ok")
    /\ ClickedIn("EmbeddedFrame")
    /\ ~ClickedIn("MainDocument")
    /\ click_success
    /\ pc = "post_wait" \/ Called(175)
    /\ pc = "post_wait" => ctx = "MainDocument" /\ LastLine = 159

AfterPostWait(i) == \E j \in Indexes : j < i /\ log[j].line = 175

\* C9: after a click and the post-click wait, one absence check decides: when
\* it finds the button absent from the main page and from the frame (or finds
\* no frame), run returns (True, "wake succeeded"); when it finds the button
\* in either, run returns False with the "still present" message.
C9_VerificationDecides ==
    /\ Called(175) => Clicked
    /\ Cardinality({i \in Indexes : AfterPostWait(i) /\ log[i].line = 95}) <= 1
    /\ RunReturned =>
         /\ (\E i, j \in Indexes :
               /\ AfterPostWait(i) /\ log[i].line = 98
               /\ log[i].out = "TimeoutException"
               /\ AfterPostWait(j)
               /\ \/ log[j].line = 108 /\ log[j].out = "NoSuchElementException"
                  \/ log[j].line = 112 /\ log[j].out = "TimeoutException")
            => result = <<[success |-> TRUE, msg |-> <<MsgWakeSucceeded>>]>>
         /\ (\E i \in Indexes :
               /\ AfterPostWait(i) /\ log[i].line \in {98, 112}
               /\ log[i].out = "ok")
            => result = <<[success |-> FALSE,
                           msg |-> <<MsgRunFailed, ExcStillPresent>>]>>

\* C9 witness: the button was clicked, was gone from the main page and from
\* the frame after the wait, and run returned
C9_Witness ==
    /\ RunReturned
    /\ Clicked
    /\ \E i \in Indexes : AfterPostWait(i) /\ log[i].line = 112
                          /\ log[i].out = "TimeoutException"
    /\ result = <<[success |-> TRUE, msg |-> <<MsgWakeSucceeded>>]>>

\* C10: when no click succeeded and the absence check finds the button in the
\* main page or in the frame, run returns False with the "not found or not
\* clickable" message, and the session is closed when run has returned.
C10_NotFoundFails ==
    (RunReturned /\ ~Clicked
       /\ \E i \in Indexes : log[i].line \in {98, 112} /\ log[i].out = "ok")
    => /\ result = <<[success |-> FALSE, msg |-> <<MsgRunFailed, ExcNotFound>>]>>
       /\ session = "closed"
       /\ LastLine = 200

\* C10 witness: nothing was clicked, the absence check found the button in
\* the frame, run returned the failure and the process has exited
C10_Witness ==
    /\ pc = "exited"
    /\ ~Clicked
    /\ Has(112, "ok")
    /\ result = <<[success |-> FALSE, msg |-> <<MsgRunFailed, ExcNotFound>>]>>
    /\ session = "closed"

\* the wake protocol was entered: the constructor returned and run was called
RunEntered == Has(51, "ok")

\* C11: the exit code is 0 whenever run completed, for a successful wake and
\* for a failure that run returned alike; it is 1 only when the error is
\* raised outside the wake protocol (the browser could not be set up); no
\* failure raised inside the wake protocol yields exit code 1.
C11_ExitCodes ==
    /\ pc = "exited" /\ RunEntered => exitCode = <<0>> /\ result # <<>>
    /\ exitCode = <<0>> => RunEntered /\ RunReturned
    /\ exitCode = <<1>> =>
          /\ ~RunEntered
          /\ result = <<>>
          /\ LastLine \in {50, 51}
          /\ log[Len(log)].out = "WebDriverException"

\* C11 witness: the wake failed inside the wake protocol (the button was not
\* found) and the process exited with code 0
C11_Witness ==
    /\ pc = "exited"
    /\ exitCode = <<0>>
    /\ result = <<[success |-> FALSE, msg |-> <<MsgRunFailed, ExcNotFound>>]>>

SeleniumExceptions ==
    {"TimeoutException", "NoSuchElementException", "WebDriverException"}

LastOut == IF log = <<>> THEN "none" ELSE log[Len(log)].out

FrameSearchCall(i) ==
    \/ log[i].line \in {151, 153}
    \/ log[i].line \in SearchLines /\ log[i].ctx = "EmbeddedFrame"

MainSearchCall(i) == log[i].line \in SearchLines /\ log[i].ctx = "MainDocument"

\* C13: in the click search and in each absence check the main document is
\* examined before the frame: a call that looks at the frame is made only
\* after the main-page search or check of the same step is over, and an
\* absence check that finds the button in the main page answers without
\* looking at the frame.
C13_MainBeforeFrame ==
    /\ \A i \in Indexes : FrameSearchCall(i) =>
          /\ \E j \in Indexes : j < i /\ MainSearchCall(j)
          /\ \A k \in Indexes : MainSearchCall(k) => k < i
    /\ \A i \in Indexes : FrameSearchCall(i) =>
          \A k \in Indexes : k < i /\ MainSearchCall(k) => log[k].out # "ok"
                                                          \/ log[k].line # 73
    /\ \A i \in Indexes : log[i].line = 108 =>
          /\ i > 2
          /\ log[i - 1].line = 98 /\ log[i - 1].out = "TimeoutException"
          /\ log[i - 1].ctx = "MainDocument"
          /\ log[i - 2].line = 95
    /\ \A i \in Indexes : log[i].line = 109 => i > 1 /\ log[i - 1].line = 108
    /\ \A i \in Indexes : log[i].line = 112 => i > 1 /\ log[i - 1].line = 109
    /\ \A i \in Indexes : log[i].line = 98 /\ log[i].out = "ok" =>
          /\ \A k \in Indexes : k > i => log[k].line = 200
          /\ ctx = "MainDocument"
          /\ pc \in {"run_except", "run_finally", "main_after_run", "exited"}

\* C13 witness: the click search went from the main page to the frame, and
\* the absence check after the click found the button in the main page and
\* answered at once
C13_Witness ==
    /\ ClickedIn("EmbeddedFrame")
    /\ Has(98, "ok")
    /\ LastLine = 98
    /\ pc = "run_except"
    /\ exc = ExcStillPresent

\* the phase of the wake attempt a call belongs to: 0 session setup,
\* 1 navigate, 2 locate-and-click, 3 post-click wait, 4 verify (absence
\* check), 5 session close
Phase(line) ==
    IF line \in {50, 51} THEN 0
    ELSE IF line \in {136, 139} THEN 1
    ELSE IF line \in ClickSearchLines \cup {159} THEN 2
    ELSE IF line = 175 THEN 3
    ELSE IF line \in {95, 98, 108, 109, 112, 116, 120, 125} THEN 4
    ELSE 5

\* number of calls made at source line l in context c
Calls(l, c) == Cardinality({i \in Indexes : log[i].line = l /\ log[i].ctx = c})

\* a click succeeded before call i
ClickedBefore(i) ==
    \E j \in Indexes : j < i /\ log[j].op = "click" /\ log[j].out = "ok"

\* C14: the phases navigate, locate-and-click, post-click wait, verify occur
\* in this order only, each at most once and never backward: the click search
\* starts after the page was opened and the initial wait of 10 s elapsed, the
\* post-click wait of 20 s is made exactly when a click succeeded, and the
\* absence check after a click starts after the post-click wait.
C14_PhasesInOrder ==
    /\ \A i, j \in Indexes : i < j => Phase(log[i].line) <= Phase(log[j].line)
    /\ \A l \in {136, 139, 175, 95, 98, 151} :
          Calls(l, "MainDocument") + Calls(l, "EmbeddedFrame") <= 1
    /\ Calls(69, "MainDocument") <= 1 /\ Calls(69, "EmbeddedFrame") <= 1
    /\ \A i \in Indexes : log[i].line \in ClickSearchLines =>
          /\ i > 4
          /\ \E j, k \in Indexes :
                /\ j < k /\ k < i
                /\ log[j].line = 136 /\ log[j].out = "ok"
                /\ log[k].line = 139 /\ log[k].secs = INITIAL_WAIT_TIME
    /\ \A i \in Indexes : log[i].line = 175 =>
          /\ ClickedBefore(i)
          /\ log[i].secs = POST_CLICK_WAIT_TIME
    /\ Clicked /\ ClickSearchDone => pc = "post_wait" \/ Called(175)
    /\ \A i \in Indexes : log[i].line = 95 /\ Clicked =>
          /\ AfterPostWait(i)
          /\ log[i - 1].line = 175
    /\ \A i \in Indexes : log[i].line = 95 /\ ~Clicked => ~Called(175)

\* C14 witness: a run that went through the four phases: page opened, button
\* clicked, post-click wait, absence check, and returned
C14_Witness ==
    /\ RunReturned
    /\ Has(136, "ok") /\ Called(139)
    /\ ClickedIn("MainDocument")
    /\ Called(175)
    /\ Has(120, "ok")
    /\ result[1].success

\* the button was there but not both visible and enabled, or it was missing
NotClickable == {"hidden", "absent"}

\* C15: in the click search a button that is in the searched place without
\* being visible and enabled has the effect of a missing button: a call of
\* the search that sees either does not click there, and the search goes on
\* to the next place: from the main page to the iframe lookup, from the frame
\* (after the switch back) to the absence check of line 168.
C15_HiddenLikeMissing ==
    \A i \in Indexes :
        log[i].line \in {69, 72} /\ log[i].saw \in NotClickable =>
            /\ log[i].out \notin {"ok", "true"}
            /\ ~ClickedIn(log[i].ctx)
            /\ i = Len(log) =>
                  /\ ~click_success
                  /\ desc = "none"
                  /\ pc = IF log[i].ctx = "MainDocument" THEN "find_iframe"
                                                          ELSE "restore"
            /\ i < Len(log) =>
                  log[i + 1].line = IF log[i].ctx = "MainDocument" THEN 151
                                                                    ELSE 159
            /\ i + 1 < Len(log) /\ log[i].ctx = "EmbeddedFrame" =>
                  log[i + 2].line = 95 /\ ~Called(175)

\* C15 witness: the button was hidden in the main page (found by the wait,
\* refused by the test of line 72), hidden in the frame, and the absence
\* check of line 168 has begun with no click made
C15_Witness ==
    /\ \E i \in Indexes :
          /\ log[i].line = 72 /\ log[i].saw = "hidden" /\ log[i].out = "false"
          /\ log[i].ctx = "MainDocument"
    /\ \E j \in Indexes :
          /\ log[j].line = 69 /\ log[j].saw = "hidden"
          /\ log[j].ctx = "EmbeddedFrame"
    /\ LastLine = 95
    /\ ~Clicked

\* is_app_woken_up has answered true: wakeup_app returned a success pair
AnsweredTrue == result # <<>> /\ result[1].success

\* C16: is_app_woken_up answers true only when the presence wait in the main
\* page timed out and, besides, either the iframe lookup found no iframe or
\* the presence wait inside the first iframe timed out; an unexpected error
\* in the frame part of the check makes it answer false, so a success is never
\* reported after a check that ended in an unexpected error.
C16_TrueOnlyWhenAbsentInBoth ==
    /\ AnsweredTrue =>
          /\ Has(98, "TimeoutException")
          /\ Has(108, "NoSuchElementException") \/ Has(112, "TimeoutException")
          /\ NoUnexpectedAt({98, 108, 109, 112})
          /\ Has(120, "ok")
          /\ ~Called(116) /\ ~Called(125)
    /\ Called(125) =>
          /\ result = <<>> \/ ~result[1].success
          /\ exc \in {ExcNotFound, ExcStillPresent} \/ pc # "run_except"
    /\ pc = "iaw_error" =>
          /\ LastLine \in {108, 109, 112}
          /\ LastOut = "WebDriverException"

\* C16 witness: the main-page wait timed out, the wait inside the frame
\* raised an unexpected error, and run returned a failure
C16_Witness ==
    /\ RunReturned
    /\ Has(98, "TimeoutException")
    /\ Has(112, "WebDriverException")
    /\ Called(125)
    /\ ~result[1].success

\* the clicks that succeeded
SuccessfulClicks == {i \in Indexes : log[i].op = "click" /\ log[i].out = "ok"}

\* C17: at most one click succeeds in a run, in one context only; the
\* "already awake" message is returned only when no click succeeded, and the
\* "wake succeeded" message only when exactly one click succeeded and the
\* post-click wait followed it.
C17_MessageMatchesClicks ==
    /\ Cardinality(SuccessfulClicks) <= 1
    /\ ~(ClickedIn("MainDocument") /\ ClickedIn("EmbeddedFrame"))
    /\ click_success <=> Clicked
    /\ result = <<Success(MsgAlreadyAwake)>> => ~Clicked /\ ~Called(175)
    /\ result = <<Success(MsgWakeSucceeded)>> =>
          /\ Cardinality(SuccessfulClicks) = 1
          /\ \E i \in SuccessfulClicks : \E j \in Indexes :
                i < j /\ log[j].line = 175
    /\ AnsweredTrue => result[1].msg \in {<<MsgAlreadyAwake>>, <<MsgWakeSucceeded>>}

\* C17 witness: one click, made in the frame, the post-click wait, and the
\* "wake succeeded" pair returned
C17_Witness ==
    /\ RunReturned
    /\ result = <<Success(MsgWakeSucceeded)>>
    /\ ClickedIn("EmbeddedFrame")
    /\ Cardinality(SuccessfulClicks) = 1

\* the browser session was started: webdriver.Chrome() returned (line 50)
SessionStarted == Has(50, "ok")

\* C18 as stated, on finite runs: a program that started the browser session
\* ends with an outcome set (run returned its pair), with the session closed,
\* and the closing call is the last browser call made.
C18_OutcomeAndCloseAtExit ==
    pc = "exited" /\ SessionStarted =>
        /\ result # <<>>
        /\ session = "closed"
        /\ LastLine = 200
        /\ Calls(200, "MainDocument") + Calls(200, "EmbeddedFrame") = 1

====
